---- MODULE Spec2Model ----
(***************************************************************************)
(* Model of the ACC broadcasting client (toonknapen/accbroadcastingsdk).   *)
(*                                                                         *)
(* Two entry points of the library are modelled, one client per behaviour: *)
(*   api = "run"    : Client.ConnectAndRun with the entry-list cache       *)
(*                    (reconnecting read loop, rate limited refresh);      *)
(*   api = "listen" : v3 Client.ConnectAndListen (connect, listen,         *)
(*                    disconnect, RequestDisconnect, RequestEntryList,     *)
(*                    RequestTrackData).                                   *)
(*                                                                         *)
(* Time is kept as the durations the code computes: every timer is the     *)
(* time elapsed since an instant, counted in ticks of one second and        *)
(* saturating at Horizon.  The code only compares now.Sub(last) with       *)
(* time.Second, so any Horizon >= Second is exact.  The attempt counter,   *)
(* which the code only compares with 0, saturates at 1.                    *)
(***************************************************************************)
EXTENDS Integers, Sequences, FiniteSets, TLC

\* ---------------------------------------------------------------- bounds
MaxCarId   == 1      \* car ids are 0..MaxCarId
MaxListLen == 1      \* longest entry list on the wire
MaxConnId  == 1      \* connection ids issued by the server are 1..MaxConnId

\* ------------------------------------------------------ program constants
Second       == 1                \* time.Second, in ticks
BackoffSleep == 5 * Second       \* time.Sleep(5 * time.Second)

\* Timers saturate at Horizon: less than, exactly and more than a second stay apart.
Horizon == Second + 1

RegistrationResultMsgType == 1
RealtimeUpdateMsgType     == 2
RealtimeCarUpdateMsgType  == 3
EntryListMsgType          == 4
TrackDataMsgType          == 5
EntryListCarMsgType       == 6
BroadcastingEventMsgType  == 7

\* the codes of InboundMessageTypes
InboundCodes ==
  {RegistrationResultMsgType, RealtimeUpdateMsgType, RealtimeCarUpdateMsgType,
   EntryListMsgType, TrackDataMsgType, EntryListCarMsgType, BroadcastingEventMsgType}

RegisterCommandApplication == 1
RequestEntryList           == 10
RequestTrackData           == 11
UnregisterCommandApplication == 9    \* the code of the Disconnect frame

\* ------------------------------------------------------------- data sets
CarIds  == 0..MaxCarId
ConnIds == 1..MaxConnId
Lists   == UNION {[1..n -> CarIds] : n \in 0..MaxListLen}

\* conn.Write reports (n, err): "ok" n = len and err = nil, "short" n < len,
\* "err" n = len and err # nil.
WriteResults == {"ok", "short", "err"}

HandlerNames == {"OnRealTimeUpdate", "OnRealTimeCarUpdate", "OnBroadCastEvent",
                 "OnEntryList", "OnEntryListCar", "OnTrackData",
                 "OnConnected", "OnDisconnected"}

Min(a, b) == IF a < b THEN a ELSE b
Range(s)  == {s[i] : i \in 1..Len(s)}
Prefixes(s) == {SubSeq(s, 1, n) : n \in 0..Len(s)}

\* A datagram is the sequence of its fields, the type byte first; a strict
\* prefix of a well-formed datagram is a truncated one.  REST stands for the
\* fields of a message behind the ones the client looks at.
REST == 99
WellFormed ==
       {<<RegistrationResultMsgType, c, success, REST>> : c \in ConnIds, success \in {0, 1}}
  \cup {<<RealtimeUpdateMsgType, REST>>}
  \cup {<<RealtimeCarUpdateMsgType, id, REST>> : id \in CarIds}
  \cup {<<EntryListMsgType, 1, Len(l)>> \o l : l \in Lists}
  \cup {<<EntryListCarMsgType, id, REST>> : id \in CarIds}
  \cup {<<TrackDataMsgType, 1, REST>>}
  \cup {<<BroadcastingEventMsgType, REST>>}
  \cup {<<0, REST>>, <<8, REST>>}
Datagrams == UNION {Prefixes(d) : d \in WellFormed}

\* ----------------------------------------------------------------- codec
\* binary.Read leaves the destination at its zero value when the buffer is
\* too short for the field.
Field(d, i) == IF Len(d) >= i THEN d[i] ELSE 0

UnmarshalConnectionResp(d) ==
  [connectionId |-> Field(d, 2), connectionSuccess |-> Field(d, 3), ok |-> Len(d) >= 4]

UnmarshalEntryListRep(d) ==
  LET entryCount == IF Len(d) >= 3 THEN d[3] ELSE 0
  IN  [connectionId |-> Field(d, 2),
       entryList    |-> [i \in 1..entryCount |-> Field(d, 3 + i)],
       ok           |-> Len(d) >= 3 + entryCount]

UnmarshalCarUpdateResp(d) == [Id |-> Field(d, 2), ok |-> Len(d) >= 3]

UnmarshalEntryListCarResp(d) == [Id |-> Field(d, 2), ok |-> Len(d) >= 3]

MarshalEntryListReq(id) == [type |-> RequestEntryList, connId |-> id]
MarshalTrackDataReq(id) == [type |-> RequestTrackData, connId |-> id]
MarshalConnectinReq == [type |-> RegisterCommandApplication, connId |-> 0]
MarshalDisconnectReq(id) ==
  [type |-> UnregisterCommandApplication, connId |-> id]

\* conn.SetDeadline is called right before the write of the registration
\* request and before no other write
DeadlineReset(frame) == frame.type = RegisterCommandApplication

\* A frame handed to conn.Write together with what Write reported, and
\* whether the deadline was reset for this write.
Sent(frame, w) ==
  [type |-> frame.type, connId |-> frame.connId, res |-> w,
   reset |-> DeadlineReset(frame)]

\* ------------------------------------------------------------ unmarshalLap
MaxSplits == 2

InvalidSectorTime == 2147483647

Int32BigEndian(b) ==
  b[4] + 256 * b[3] + 65536 * b[2]
       + 16777216 * (IF b[1] >= 128 THEN b[1] - 256 ELSE b[1])

\* binary.Write, little endian, of an int32: its two's complement, the
\* least significant byte first
Int32Bytes(v) ==
  <<v % 256, (v \div 256) % 256, (v \div 65536) % 256, (v \div 16777216) % 256>>

\* binary.Read, little endian, of an int32 and of a uint16
Int32LE(b) ==
  b[1] + 256 * b[2] + 65536 * b[3]
       + 16777216 * (IF b[4] >= 128 THEN b[4] - 256 ELSE b[4])
Uint16LE(b) == b[1] + 256 * b[2]

\* the words a split takes on the wire: the reserved value, its neighbour,
\* zero, one, -1 and the least int32
SplitWords ==
  { <<255, 255, 255, 127>>, <<254, 255, 255, 127>>, <<0, 0, 0, 0>>,
    <<1, 0, 0, 0>>, <<255, 255, 255, 255>>, <<0, 0, 0, 128>> }

\* a lap on the wire: LapTimeMs, CarId, DriverId, the split count, the
\* splits and the four flags
LapBytes(time, splits) ==
  time \o <<1, 0>> \o <<0, 0>> \o <<Len(splits)>>
       \o [k \in 1..(4 * Len(splits)) |-> splits[((k - 1) \div 4) + 1][((k - 1) % 4) + 1]]
       \o <<0, 1, 0, 0>>

\* the buffers unmarshalLap is given: laps, whole or cut short
LapBuffers ==
  UNION { Prefixes(LapBytes(time, splits)) :
            time \in {<<255, 255, 255, 127>>, <<16, 39, 0, 0>>},
            splits \in UNION {[1..n -> SplitWords] : n \in 0..MaxSplits} }

NormalizeNothing(split) == split

\* if lap.Splits[i] == InvalidSectorTime { lap.Splits[i] = 0 }
Normalize(split) == IF split = InvalidSectorTime THEN 0 ELSE split

\* readBuffer reads the n bytes behind offset: it fails on a short buffer and
\* then leaves the destination zero
Has(b, offset, n) == Len(b) >= offset + n
ByteAt(b, offset) == IF Has(b, offset, 1) THEN b[offset + 1] ELSE 0

\* unmarshalLap: the fields are read in order and the first short read
\* stops the decoding
unmarshalLap(b) ==
  LET splitCount == ByteAt(b, 8)
      end        == 9 + 4 * splitCount
  IN  [ decoded   |-> TRUE,
        ok        |-> Has(b, end, 4),
        LapTimeMs |-> IF Has(b, 0, 4) THEN Int32LE(SubSeq(b, 1, 4)) ELSE 0,
        CarId     |-> IF Has(b, 4, 2) THEN Uint16LE(SubSeq(b, 5, 6)) ELSE 0,
        DriverId  |-> IF Has(b, 6, 2) THEN Uint16LE(SubSeq(b, 7, 8)) ELSE 0,
        Splits    |-> [i \in 1..splitCount |->
                         IF Has(b, 9 + 4 * (i - 1), 4)
                         THEN Normalize(Int32LE(SubSeq(b, 9 + 4 * (i - 1) + 1, 9 + 4 * i)))
                         ELSE 0],
        IsInvalid      |-> ByteAt(b, end),
        IsValidForBest |-> ByteAt(b, end + 1),
        IsOutLap       |-> ByteAt(b, end + 2),
        IsInLap        |-> ByteAt(b, end + 3) ]

\* no lap has been decoded
NoLap ==
  [ decoded |-> FALSE, ok |-> FALSE, LapTimeMs |-> 0, CarId |-> 0, DriverId |-> 0,
    Splits |-> <<>>, IsInvalid |-> 0, IsValidForBest |-> 0, IsOutLap |-> 0,
    IsInLap |-> 0 ]

\* ------------------------------------------------- strings on the wire
MaxStrLen == 2

\* the bytes strings are made of, and the strings
StrBytes == {0, 65, 255}
Strings  == UNION {[1..n -> StrBytes] : n \in 0..MaxStrLen}

\* binary.Read, little endian, of an int16
Int16LE(b) ==
  LET u == b[1] + 256 * b[2] IN IF u >= 32768 THEN u - 65536 ELSE u

Int16BytesBigEndian(n) == <<(n % 65536) \div 256, (n % 65536) % 256>>

\* binary.Write, little endian, of int16(n): the two bytes of n mod 2^16
Int16Bytes(n) == <<(n % 65536) % 256, (n % 65536) \div 256>>

\* the bytes of b behind the first n
Drop(b, n) == SubSeq(b, n + 1, Len(b))

\* writeString: the length as int16, then the bytes of s
writeString(s) == Int16Bytes(Len(s)) \o s

\* readString: the length, make([]byte, length), which panics for a
\* negative length, then that many bytes; a short read fails, has consumed
\* what there was and leaves *s as it was
readString(b) ==
  IF Len(b) < 2
  THEN [ok |-> FALSE, panics |-> FALSE, s |-> <<>>, rest |-> <<>>]
  ELSE LET length == Int16LE(b)
           body   == Drop(b, 2)
       IN  IF length < 0
           THEN [ok |-> FALSE, panics |-> TRUE, s |-> <<>>, rest |-> body]
           ELSE IF Len(body) < length
           THEN [ok |-> FALSE, panics |-> FALSE, s |-> <<>>, rest |-> <<>>]
           ELSE [ok |-> TRUE, panics |-> FALSE, s |-> SubSeq(body, 1, length),
                 rest |-> Drop(body, length)]

\* the buffers a decoder is given: every sequence of up to MaxBufLen bytes
MaxBufLen == 3
WireBytes == {0, 1, 65, 128, 255}
ByteSeqs  == UNION {[1..n -> WireBytes] : n \in 0..MaxBufLen}

\* ------------------------------------------- the decoders, byte by byte
\* A decoder threads the buffer and its ok through its reads: r.b is what is
\* left of the buffer, r.failed says that a read has failed and r.late that
\* a read was attempted after one had failed.
Start(b) == [b |-> b, ok |-> TRUE, panics |-> FALSE, failed |-> FALSE, late |-> FALSE]

RdLenient(r, n) ==
  IF ~r.ok THEN r
  ELSE IF Len(r.b) >= n THEN [r EXCEPT !.b = Drop(r.b, n), !.late = @ \/ r.failed]
  ELSE [r EXCEPT !.b = <<>>, !.late = @ \/ r.failed]

\* ok = ok && readBuffer(buffer, &field) for a field of n bytes: a short
\* read fails and has consumed what was left
Rd(r, n) ==
  IF ~r.ok THEN r
  ELSE IF Len(r.b) >= n THEN [r EXCEPT !.b = Drop(r.b, n), !.late = @ \/ r.failed]
  ELSE [r EXCEPT !.b = <<>>, !.ok = FALSE, !.late = @ \/ r.failed, !.failed = TRUE]

\* ok = ok && readString(buffer, &field)
RdStr(r) ==
  IF ~r.ok THEN r
  ELSE LET x == readString(r.b)
       IN  [b |-> x.rest, ok |-> x.ok, panics |-> x.panics,
            failed |-> r.failed \/ (~x.ok /\ ~x.panics), late |-> r.late \/ r.failed]

\* the value of a count field of n bytes that the read from r to q tried to read
Count(r, q, n) ==
  IF ~q.ok \/ Len(r.b) < n THEN 0
  ELSE IF n = 1 THEN r.b[1] ELSE Uint16LE(r.b)

\* UnmarshalConnectionResp
UnmarshalConnectionRespBytes(b) == RdStr(Rd(Rd(Rd(Start(b), 4), 1), 1))

\* UnmarshalEntryListRep: the loop reads entryCount ids of two bytes
UnmarshalEntryListRepBytes(b) ==
  LET r1 == Rd(Start(b), 4)
      r2 == Rd(r1, 2)
  IN  Rd(r2, 2 * Count(r1, r2, 2))

\* the loop over the drivers of UnmarshalEntryListCarResp
RECURSIVE RdDrivers(_, _)
RdDrivers(r, n) ==
  IF n = 0 \/ ~r.ok THEN r
  ELSE RdDrivers(Rd(Rd(RdStr(RdStr(RdStr(r))), 1), 2), n - 1)

\* UnmarshalEntryListCarResp
UnmarshalEntryListCarRespBytes(b) ==
  LET r1 == Rd(Rd(Rd(Rd(RdStr(Rd(Rd(Start(b), 2), 1)), 4), 1), 1), 2)
      r2 == Rd(r1, 1)
  IN  RdDrivers(r2, Count(r1, r2, 1))

\* UnmarshalTrackDataResp: the ok of the connection id is overwritten by
\* the one of readString
UnmarshalTrackDataRespBytes(b) ==
  LET r1 == Rd(Start(b), 4)
  IN  Rd(Rd(RdStr([r1 EXCEPT !.ok = TRUE]), 4), 4)

\* unmarshalLap, as a step of a decoder that calls it
RdLap(r) ==
  LET r1 == Rd(Rd(Rd(r, 4), 2), 2)
      r2 == Rd(r1, 1)
  IN  Rd(Rd(Rd(Rd(Rd(r2, 4 * Count(r1, r2, 1)), 1), 1), 1), 1)

\* unmarshalRealTimeUpdate
unmarshalRealTimeUpdateBytes(b) ==
  LET r1 == RdStr(RdStr(RdStr(Rd(Rd(Rd(Rd(Rd(Rd(Rd(Start(b), 2), 2), 1), 1), 4), 4), 4))))
      r2 == Rd(r1, 1)
      r3 == IF Count(r1, r2, 1) > 0 THEN Rd(Rd(r2, 4), 4) ELSE r2
      r4 == Rd(Rd(Rd(Rd(Rd(Rd(r3, 4), 1), 1), 1), 1), 1)
  IN  RdLap(r4)

\* UnmarshalCarUpdateResp
UnmarshalCarUpdateRespBytes(b) ==
  LET r1 == Rd(Rd(Rd(Rd(Rd(Rd(Rd(Start(b), 2), 2), 1), 1), 4), 4), 4)
      r2 == Rd(Rd(Rd(Rd(Rd(Rd(Rd(Rd(r1, 1), 2), 2), 2), 2), 4), 2), 4)
  IN  RdLap(RdLap(RdLap(r2)))

\* unmarshalBroadCastEvent
unmarshalBroadCastEventBytes(b) == Rd(Rd(RdStr(Rd(Start(b), 1)), 4), 4)

\* the decoder of an inbound message type
UnmarshalBytes(type, b) ==
  CASE type = RegistrationResultMsgType -> UnmarshalConnectionRespBytes(b)
    [] type = RealtimeUpdateMsgType     -> unmarshalRealTimeUpdateBytes(b)
    [] type = RealtimeCarUpdateMsgType  -> UnmarshalCarUpdateRespBytes(b)
    [] type = EntryListMsgType          -> UnmarshalEntryListRepBytes(b)
    [] type = TrackDataMsgType          -> UnmarshalTrackDataRespBytes(b)
    [] type = EntryListCarMsgType       -> UnmarshalEntryListCarRespBytes(b)
    [] type = BroadcastingEventMsgType  -> unmarshalBroadCastEventBytes(b)

\* well-formed payloads, field by field as the decoders read them
Int32Word   == <<1, 0, 0, 0>>
Float32Word == <<0, 0, 128, 63>>
WireStrings == {writeString(s) : s \in {<<>>, <<65>>}}
WireLaps    ==
  {LapBytes(Int32Word, splits) : splits \in UNION {[1..n -> {Int32Word}] : n \in 0..1}}
WireDriver(str) == str \o str \o str \o <<2>> \o <<3, 0>>

Payloads(type) ==
  CASE type = RegistrationResultMsgType ->
         {Int32Word \o <<1>> \o <<0>> \o str : str \in WireStrings}
    [] type = RealtimeUpdateMsgType ->
         {<<0, 0>> \o <<0, 0>> \o <<4>> \o <<5>> \o Float32Word \o Float32Word
            \o Int32Word \o str \o str \o str
            \o (IF replay = 0 THEN <<0>> ELSE <<1>> \o Int32Word \o Int32Word)
            \o Float32Word \o <<20>> \o <<30>> \o <<0>> \o <<0>> \o <<0>> \o l :
            str \in WireStrings, replay \in {0, 1}, l \in WireLaps}
    [] type = RealtimeCarUpdateMsgType ->
         {<<1, 0>> \o <<0, 0>> \o <<1>> \o <<3>> \o Float32Word \o Float32Word
            \o Float32Word \o <<1>> \o <<100, 0>> \o <<1, 0>> \o <<1, 0>> \o <<0, 0>>
            \o Float32Word \o <<2, 0>> \o Int32Word \o l1 \o l2 \o l2 :
            l1 \in WireLaps, l2 \in WireLaps}
    [] type = EntryListMsgType ->
         {Int32Word \o <<n, 0>> \o [k \in 1..(2 * n) |-> IF k % 2 = 1 THEN 1 ELSE 0] :
            n \in 0..2}
    [] type = TrackDataMsgType ->
         {Int32Word \o str \o Int32Word \o Int32Word : str \in WireStrings}
    [] type = EntryListCarMsgType ->
         {<<1, 0>> \o <<7>> \o str \o Int32Word \o <<0>> \o <<0>> \o <<3, 0>>
            \o (IF n = 0 THEN <<0>> ELSE <<1>> \o WireDriver(str)) :
            str \in WireStrings, n \in {0, 1}}
    [] type = BroadcastingEventMsgType ->
         {<<1>> \o str \o Int32Word \o Int32Word : str \in WireStrings}

\* what can follow a string in a buffer
Tails == {<<>>, <<7>>, <<0, 0>>}

\* no call of the codec, and no result
NoArg == [fn |-> "none", type |-> 0, b |-> <<>>, t |-> <<>>]
NoRet == [done |-> FALSE, ok |-> FALSE, panics |-> FALSE, b |-> <<>>, s |-> <<>>,
          rest |-> <<>>, late |-> FALSE]

\* ----------------------------------------------------------------- state
VARIABLES
  api,                    \* which entry point the application called
  handlers,               \* the callbacks of the Client that are not nil
  pc,                     \* position of the goroutine running the entry point
  attempt,                \* ConnectAndRun: attempt
  conn,                   \* client.conn: 0 is nil, 1 is the socket of the last dial,
                          \* Closed is that socket after Close
  globalConnectionId,     \* ConnectAndRun: globalConnectionId
  entryList,              \* client.entryList: [known, ids], known = FALSE is nil
  sinceEntryListRequest,  \* now.Sub(client.lastEntryListRequest)
  connectionId,           \* v3: client.connectionId
  stopListening,          \* v3: client.stopListening
  \* history of the last step and of the current connection
  calls,                  \* handler invocations made by the last step
  written,                \* frames the last step handed to conn.Write
  msgType,                \* msgType of the datagram the last step handled
  replaced,               \* client.entryList before the last step, when that
                          \* step handled an EntryList message
  slept,                  \* the backoff sleep was taken in this attempt
  regWrite,               \* what the registration write of this attempt reported
  regThisConn,            \* connection id of the RegistrationResult of this connection
  entryListThisConn,      \* an EntryList message was read on this connection
  failure,                \* the transient failure that ended the last attempt
  entryListCarCalled,     \* OnEntryListCar was called for car id 0
  sinceReqFrame,          \* time since the last entry-list request frame
  unk,                    \* the update that invalidated the list, if the last step
                          \* read it: [valid, reqs (requests it wrote), age]
  resyncPending,          \* the list was invalidated and no request written since
  \* the decoding of one lap
  buffer,                 \* unmarshalLap: the bytes of the buffer it is given
  lap,                    \* unmarshalLap: the Lap and the ok it returned
  \* one call of a function of the codec
  given,                  \* the function and what it is given
  ret,                    \* what it returned
  \* the v2 Client
  writeBuffer,            \* v2: client.writeBuffer, the frames it holds
  datagrams,              \* v2: what the last step handed to conn.Write
  returned,               \* v2: the method the last step ran, and its result
  \* two calls of v3 ConnectAndListen on one Client
  goroutine,              \* where the application and each of the calls are
  socket,                 \* the sockets the calls dialled: unopened, open, closed
  connRef,                \* client.conn: 0 is nil, else the socket it refers to
  disconnected            \* the call whose disconnect() the last step ran, the
                          \* socket it wrote to and whether it closed it

clientVars ==
  <<api, handlers, pc, attempt, conn, globalConnectionId, entryList,
    sinceEntryListRequest, connectionId, stopListening, msgType, replaced, calls,
    written,
    slept, regWrite, regThisConn, entryListThisConn, failure, entryListCarCalled,
    sinceReqFrame, unk, resyncPending>>

vars ==
  <<clientVars, buffer, lap, given, ret, writeBuffer, datagrams, returned,
    goroutine, socket, connRef, disconnected>>

\* before anything runs; no disconnect() was run by the last step
Unstarted   == [app |-> "done", earlier |-> "unstarted", newer |-> "unstarted"]
NoSockets   == <<"unopened", "unopened">>
NoDisconnect == [by |-> "none", socket |-> 0, closed |-> FALSE]
AtRest ==
  /\ goroutine = Unstarted /\ socket = NoSockets /\ connRef = 0
  /\ disconnected = NoDisconnect

\* no method of the v2 Client has returned
NoReturn == [fn |-> "none", id |-> 0, ok |-> FALSE]

NilList == [known |-> FALSE, ids |-> <<>>]
NoId    == [known |-> FALSE, id |-> 0]
NoUnk   == [valid |-> FALSE, reqs |-> 0, age |-> 0]
NoMsg   == -1     \* the last step handled no datagram
Closed  == 2      \* conn: the socket after Close has been called on it

Call(h, arg) == [h |-> h, arg |-> arg]

Adv(t, d) == Min(t + d, Horizon)

\* ------------------------------------------------------------------ Init
RunHandlers == HandlerNames \ {"OnConnected", "OnDisconnected"}

\* the callback configurations explored
HandlerConfigs ==
  {RunHandlers, RunHandlers \ {"OnEntryList"}, RunHandlers \ {"OnRealTimeCarUpdate"}, {}}

Init ==
  /\ api \in {"run", "listen"}
  /\ handlers \in IF api = "run" THEN HandlerConfigs ELSE {HandlerNames, {}}
  /\ pc = IF api = "run" THEN "loop" ELSE "idle"
  /\ connectionId = 0
  /\ stopListening = FALSE
  /\ attempt = 0
  /\ conn = 0
  /\ globalConnectionId = 0
  /\ entryList = NilList
  /\ sinceEntryListRequest = Horizon      \* the zero time.Time is long ago
  /\ calls = <<>>
  /\ written = <<>>
  /\ msgType = NoMsg
  /\ replaced = NilList
  /\ slept = FALSE
  /\ regWrite = "none"
  /\ regThisConn = NoId
  /\ entryListThisConn = FALSE
  /\ failure = "none"
  /\ entryListCarCalled = FALSE
  /\ sinceReqFrame = Horizon
  /\ unk = NoUnk
  /\ resyncPending = FALSE
  /\ buffer = <<>>
  /\ lap = NoLap
  /\ given = NoArg
  /\ ret = NoRet
  /\ writeBuffer = <<>> /\ datagrams = <<>> /\ returned = NoReturn
  /\ AtRest

\* ------------------------------------------------------- groups of state
cfgVars   == <<api, handlers>>
lapVars   == <<buffer, lap>>
codecVars == <<given, ret>>
v2Vars    == <<writeBuffer, datagrams, returned>>
restartVars == <<goroutine, socket, connRef, disconnected>>
v3Vars    == <<connectionId, stopListening>>
cacheVars == <<entryList, sinceEntryListRequest>>
connHist  == <<slept, regWrite, regThisConn, entryListThisConn>>

\* the time since the last entry-list request frame, given the frames of this step
NoteFrames(frames) ==
  IF \E i \in 1..Len(frames) : frames[i].type = RequestEntryList
  THEN sinceReqFrame' = 0
  ELSE UNCHANGED sinceReqFrame

\* ----------------------------------------------------------------- clock
Tick ==
  /\ pc # "panic"
  /\ msgType' = NoMsg /\ replaced' = NilList
  /\ sinceEntryListRequest' = Adv(sinceEntryListRequest, 1)
  /\ sinceReqFrame' = Adv(sinceReqFrame, 1)
  /\ unk' = IF unk.valid THEN [unk EXCEPT !.age = Adv(unk.age, 1)] ELSE unk
  /\ calls' = <<>> /\ written' = <<>>
  /\ UNCHANGED <<cfgVars, lapVars, codecVars, v2Vars, restartVars, v3Vars, pc, attempt, conn, globalConnectionId, entryList,
                 connHist, failure, entryListCarCalled, resyncPending>>

\* -------------------------------------------------- Client.ConnectAndRun
\* top of StartConnectionLoop: the backoff sleep and attempt++
RunStartAttempt ==
  /\ api = "run" /\ pc = "loop"
  /\ msgType' = NoMsg /\ replaced' = NilList
  /\ LET d == IF attempt > 0 THEN BackoffSleep ELSE 0 IN
       /\ sinceEntryListRequest' = Adv(sinceEntryListRequest, d)
       /\ sinceReqFrame' = Adv(sinceReqFrame, d)
  /\ slept' = (attempt > 0)
  /\ attempt' = Min(attempt + 1, 1)
  /\ pc' = "resolve"
  /\ regWrite' = "none" /\ regThisConn' = NoId /\ entryListThisConn' = FALSE
  /\ unk' = NoUnk /\ resyncPending' = FALSE
  /\ failure' = "none"
  /\ calls' = <<>> /\ written' = <<>>
  /\ UNCHANGED <<cfgVars, lapVars, codecVars, v2Vars, restartVars, v3Vars, conn, globalConnectionId, entryList,
                 entryListCarCalled>>

\* net.ResolveUDPAddr
RunResolve ==
  /\ api = "run" /\ pc = "resolve"
  /\ msgType' = NoMsg /\ replaced' = NilList
  /\ \E ok \in BOOLEAN :
       /\ pc' = IF ok THEN "dial" ELSE "loop"
       /\ failure' = IF ok THEN failure ELSE "resolve"
  /\ calls' = <<>> /\ written' = <<>>
  /\ UNCHANGED <<cfgVars, lapVars, codecVars, v2Vars, restartVars, v3Vars, attempt, conn, globalConnectionId, cacheVars,
                 connHist, entryListCarCalled, sinceReqFrame, unk, resyncPending>>

\* net.DialUDP: an error is logged and the code goes on with client.conn = nil
RunDial ==
  /\ api = "run" /\ pc = "dial"
  /\ msgType' = NoMsg /\ replaced' = NilList
  /\ \E ok \in BOOLEAN :
       /\ conn' = IF ok THEN 1 ELSE 0
       /\ failure' = IF ok THEN failure ELSE "dial"
  /\ pc' = "register"
  /\ calls' = <<>> /\ written' = <<>>
  /\ UNCHANGED <<cfgVars, lapVars, codecVars, v2Vars, restartVars, v3Vars, attempt, globalConnectionId, cacheVars, connHist,
                 entryListCarCalled, sinceReqFrame, unk, resyncPending>>

\* n < writeBuffer.Len() or err != nil: continue StartConnectionLoop
RegisterNextPc(w) == IF w = "ok" THEN "read" ELSE "loop"

\* MarshalConnectinReq, SetDeadline and Write of the registration request;
\* a method call on the nil *net.UDPConn is a nil pointer dereference
RunRegister ==
  /\ api = "run" /\ pc = "register"
  /\ msgType' = NoMsg /\ replaced' = NilList
  /\ IF conn = 0
     THEN /\ pc' = "panic"
          /\ written' = <<>>
          /\ UNCHANGED <<regWrite, failure>>
     ELSE \E w \in WriteResults :
          /\ written' = <<Sent(MarshalConnectinReq, w)>>
          /\ regWrite' = w
          /\ pc' = RegisterNextPc(w)
          /\ failure' = IF w = "ok" THEN failure ELSE "write"
  /\ calls' = <<>>
  /\ UNCHANGED <<cfgVars, lapVars, codecVars, v2Vars, restartVars, v3Vars, attempt, conn, globalConnectionId, cacheVars,
                 slept, regThisConn, entryListThisConn, entryListCarCalled,
                 sinceReqFrame, unk, resyncPending>>

ReadErrorKeepsReading == "read"

\* continue StartConnectionLoop
ReadErrorNextPc == "loop"

\* conn.Read returns an error (timeout included, and always on a closed socket)
RunReadError ==
  /\ api = "run" /\ pc = "read"
  /\ msgType' = NoMsg /\ replaced' = NilList
  /\ pc' = ReadErrorNextPc
  /\ failure' = "read"
  /\ calls' = <<>> /\ written' = <<>>
  /\ UNCHANGED <<cfgVars, lapVars, codecVars, v2Vars, restartVars, v3Vars, attempt, conn, globalConnectionId, cacheVars,
                 connHist, entryListCarCalled, sinceReqFrame, unk, resyncPending>>

OverflowTruncates == "read"

\* n == ReadBufferSize: Logger.Panic
ReadOverflowNextPc == "panic"

\* conn.Read fills the whole buffer
RunReadOverflow ==
  /\ api = "run" /\ pc = "read" /\ conn # Closed
  /\ msgType' = NoMsg /\ replaced' = NilList
  /\ pc' = ReadOverflowNextPc
  /\ failure' = "overflow"
  /\ calls' = <<>> /\ written' = <<>>
  /\ UNCHANGED <<cfgVars, lapVars, codecVars, v2Vars, restartVars, v3Vars, attempt, conn, globalConnectionId, cacheVars,
                 connHist, entryListCarCalled, sinceReqFrame, unk,
                 resyncPending>>

\* the read loop has a datagram d whose type byte is one of types
Reads(d, types) ==
  api = "run" /\ pc = "read" /\ conn # Closed /\ Len(d) >= 1 /\ d[1] \in types

ContainsAlways(list, carId) == TRUE

\* the loop over client.entryList
Contains(list, carId) == \E i \in 1..Len(list) : list[i] = carId

TooSoonNever(since) == FALSE

\* do not ask more than once per sec
TooSoon(since) == since < Second

\* a step that does not call conn.Write has one outcome, whatever Write would report
Unused(notCalled, w) == notCalled => w = "ok"

\* a datagram without a type byte: readBuffer.ReadByte fails
RunReadEmpty ==
  /\ api = "run" /\ pc = "read" /\ conn # Closed
  /\ msgType' = NoMsg /\ replaced' = NilList
  /\ pc' = "loop"
  /\ failure' = "nomsgtype"
  /\ calls' = <<>> /\ written' = <<>>
  /\ unk' = NoUnk
  /\ UNCHANGED <<cfgVars, lapVars, codecVars, v2Vars, restartVars, v3Vars, attempt, conn, globalConnectionId, cacheVars,
                 connHist, entryListCarCalled, sinceReqFrame, resyncPending>>

\* Client.sendReqEntryList; w is what conn.Write reports when it is called
sendReqEntryList(id, w) ==
  IF TooSoon(sinceEntryListRequest)
  THEN [error |-> FALSE, frames |-> <<>>, since |-> sinceEntryListRequest]
  ELSE [error  |-> w # "ok",
        frames |-> <<Sent(MarshalEntryListReq(id), w)>>,
        since  |-> 0]

\* case RegistrationResultMsgType
RegistrationResult(d, w1, w2) ==
  /\ Reads(d, {RegistrationResultMsgType})
  /\ msgType' = d[1] /\ replaced' = NilList
  /\ Unused(TooSoon(sinceEntryListRequest), w1)
  /\ Unused(TooSoon(sinceEntryListRequest) = FALSE /\ w1 # "ok", w2)
  /\ LET resp == UnmarshalConnectionResp(d)
         r    == sendReqEntryList(resp.connectionId, w1)
         out  == IF r.error THEN r.frames
                 ELSE r.frames \o <<Sent(MarshalTrackDataReq(resp.connectionId), w2)>>
     IN  /\ globalConnectionId' = resp.connectionId
         /\ regThisConn' = [known |-> TRUE, id |-> resp.connectionId]
         /\ sinceEntryListRequest' = r.since
         /\ written' = out
         /\ NoteFrames(out)
         /\ pc' = IF r.error \/ w2 # "ok" THEN "loop" ELSE "read"
         /\ failure' = IF r.error \/ w2 # "ok" THEN "reqwrite" ELSE failure
         /\ resyncPending' = (resyncPending /\ r.frames = <<>>)
  /\ calls' = <<>>
  /\ unk' = NoUnk
  /\ UNCHANGED <<cfgVars, lapVars, codecVars, v2Vars, restartVars, v3Vars, attempt, conn, entryList, slept, regWrite,
                 entryListThisConn, entryListCarCalled>>

RunRegistrationResult ==
  \E d \in Datagrams, w1 \in WriteResults, w2 \in WriteResults : RegistrationResult(d, w1, w2)

PlainReplayed(type, handler) ==
  /\ \E d \in Datagrams : Reads(d, {type})
  /\ msgType' = type /\ replaced' = NilList
  /\ calls' = IF handler \in handlers
              THEN <<Call(handler, <<>>), Call(handler, <<>>)>> ELSE <<>>
  /\ written' = <<>>
  /\ unk' = NoUnk
  /\ UNCHANGED <<cfgVars, lapVars, codecVars, v2Vars, restartVars, v3Vars, pc, attempt, conn, globalConnectionId, cacheVars,
                 connHist, failure, entryListCarCalled, sinceReqFrame, resyncPending>>

\* the cases that decode and dispatch without gating
Plain(type, handler) ==
  /\ \E d \in Datagrams : Reads(d, {type})
  /\ msgType' = type /\ replaced' = NilList
  /\ calls' = IF handler \in handlers THEN <<Call(handler, <<>>)>> ELSE <<>>
  /\ written' = <<>>
  /\ unk' = NoUnk
  /\ UNCHANGED <<cfgVars, lapVars, codecVars, v2Vars, restartVars, v3Vars, pc, attempt, conn, globalConnectionId, cacheVars,
                 connHist, failure, entryListCarCalled, sinceReqFrame, resyncPending>>

RunRealtimeUpdate    == Plain(RealtimeUpdateMsgType, "OnRealTimeUpdate")
RunTrackData         == Plain(TrackDataMsgType, "OnTrackData")
RunBroadcastingEvent == Plain(BroadcastingEventMsgType, "OnBroadCastEvent")

UnrecognisedRestarts == "loop"

\* default: the switch ends and the read loop goes on
UnrecognisedNextPc == "read"

\* default: unrecognised msg-type
RunUnrecognised ==
  /\ \E d \in Datagrams : Reads(d, {0, 8}) /\ msgType' = d[1] /\ replaced' = NilList
  /\ calls' = <<>> /\ written' = <<>>
  /\ unk' = NoUnk
  /\ pc' = UnrecognisedNextPc
  /\ UNCHANGED <<cfgVars, lapVars, codecVars, v2Vars, restartVars, v3Vars, attempt, conn, globalConnectionId, cacheVars,
                 connHist, failure, entryListCarCalled, sinceReqFrame, resyncPending>>

\* case RealtimeCarUpdateMsgType
RealtimeCarUpdate(d, w) ==
  /\ Reads(d, {RealtimeCarUpdateMsgType})
  /\ msgType' = d[1] /\ replaced' = NilList
  /\ Unused(\/ ~entryList.known
            \/ "OnRealTimeCarUpdate" \notin handlers
            \/ Contains(entryList.ids, UnmarshalCarUpdateResp(d).Id)
            \/ TooSoon(sinceEntryListRequest), w)
  /\ LET upd == UnmarshalCarUpdateResp(d)
         r   == sendReqEntryList(globalConnectionId, w)
     IN
     IF ~entryList.known
     THEN \* not handled as entrylist not received yet
          /\ calls' = <<>> /\ written' = <<>>
          /\ unk' = NoUnk
          /\ UNCHANGED <<cacheVars, sinceReqFrame, resyncPending>>
     ELSE IF "OnRealTimeCarUpdate" \notin handlers
     THEN /\ calls' = <<>> /\ written' = <<>>
          /\ unk' = NoUnk
          /\ UNCHANGED <<cacheVars, sinceReqFrame, resyncPending>>
     ELSE IF Contains(entryList.ids, upd.Id)
     THEN /\ calls' = <<Call("OnRealTimeCarUpdate", <<upd.Id>>)>>
          /\ written' = <<>>
          /\ unk' = NoUnk
          /\ UNCHANGED <<cacheVars, sinceReqFrame, resyncPending>>
     ELSE \* car id unknown, fetching new entry-list
          /\ entryList' = NilList
          /\ sinceEntryListRequest' = r.since
          /\ written' = r.frames
          /\ NoteFrames(r.frames)
          /\ calls' = <<>>
          /\ unk' = [valid |-> TRUE, reqs |-> Len(r.frames), age |-> 0]
          /\ resyncPending' = (r.frames = <<>>)
  /\ UNCHANGED <<cfgVars, lapVars, codecVars, v2Vars, restartVars, v3Vars, pc, attempt, conn, globalConnectionId, connHist,
                 failure, entryListCarCalled>>

RunRealtimeCarUpdate == \E d \in Datagrams, w \in WriteResults : RealtimeCarUpdate(d, w)

KeepBoth(old, new) == old \o new

\* client.entryList = entryList
ReplaceList(old, new) == new

\* case EntryListMsgType
EntryListMsg(d) ==
  /\ Reads(d, {EntryListMsgType})
  /\ msgType' = d[1]
  /\ replaced' = entryList
  /\ IF "OnEntryList" \in handlers
     THEN LET r == UnmarshalEntryListRep(d) IN
          /\ entryList' = [known |-> TRUE, ids |-> ReplaceList(entryList.ids, r.entryList)]
          /\ calls' = <<Call("OnEntryList", r.entryList)>>
          /\ resyncPending' = FALSE
     ELSE /\ calls' = <<>>
          /\ UNCHANGED <<entryList, resyncPending>>
  /\ entryListThisConn' = TRUE
  /\ written' = <<>>
  /\ unk' = NoUnk
  /\ UNCHANGED <<cfgVars, lapVars, codecVars, v2Vars, restartVars, v3Vars, pc, attempt, conn, globalConnectionId,
                 sinceEntryListRequest, slept, regWrite, regThisConn, failure,
                 entryListCarCalled, sinceReqFrame>>

RunEntryList == \E d \in Datagrams : EntryListMsg(d)

\* case EntryListCarMsgType
EntryListCarMsg(d) ==
  /\ Reads(d, {EntryListCarMsgType})
  /\ msgType' = d[1] /\ replaced' = NilList
  /\ IF "OnEntryListCar" \in handlers
     THEN LET car == UnmarshalEntryListCarResp(d) IN
          /\ calls' = <<Call("OnEntryListCar", <<car.Id>>)>>
          /\ entryListCarCalled' = (entryListCarCalled \/ car.Id = 0)
     ELSE /\ calls' = <<>>
          /\ UNCHANGED entryListCarCalled
  /\ written' = <<>>
  /\ unk' = NoUnk
  /\ UNCHANGED <<cfgVars, lapVars, codecVars, v2Vars, restartVars, v3Vars, pc, attempt, conn, globalConnectionId, cacheVars,
                 connHist, failure, sinceReqFrame, resyncPending>>

RunEntryListCar == \E d \in Datagrams : EntryListCarMsg(d)

\* ---------------------------------------------- v3 Client.ConnectAndListen
\* what ConnectAndRun keeps and the v3 client does not have
runVars == <<attempt, globalConnectionId, entryList, sinceEntryListRequest,
             slept, entryListThisConn, entryListCarCalled, sinceReqFrame, unk,
             resyncPending>>

\* how Client.connect ends: ResolveUDPAddr fails, DialUDP fails, or what the
\* write of the registration request reports
ConnectOutcomes == {"resolve", "dial"} \cup WriteResults

\* ConnectAndListen is called: Client.connect
ListenConnect ==
  /\ api = "listen" /\ pc = "idle"
  /\ msgType' = NoMsg /\ replaced' = NilList
  /\ \E o \in ConnectOutcomes :
       /\ conn' = IF o = "resolve" THEN conn ELSE IF o = "dial" THEN 0 ELSE 1
       /\ written' = IF o \in WriteResults THEN <<Sent(MarshalConnectinReq, o)>> ELSE <<>>
       /\ regWrite' = IF o \in WriteResults THEN o ELSE "none"
       /\ failure' = IF o = "ok" THEN "none"
                     ELSE IF o \in WriteResults THEN "write" ELSE o
       \* if success { client.listen() }; client.disconnect()
       /\ pc' = IF o = "ok" THEN "listen" ELSE "disconnect"
  /\ stopListening' = FALSE
  /\ regThisConn' = NoId
  /\ calls' = <<>>
  /\ UNCHANGED <<cfgVars, lapVars, codecVars, v2Vars, restartVars, connectionId, runVars>>

LoopConditionIgnoresFlag(flag) == TRUE

\* for !client.stopListening
LoopCondition(flag) == ~flag

\* the loop condition holds: the deadline is set and conn.Read is called
ListenEnter ==
  /\ api = "listen" /\ pc = "listen" /\ LoopCondition(stopListening)
  /\ msgType' = NoMsg /\ replaced' = NilList
  /\ pc' = "reading"
  /\ calls' = <<>> /\ written' = <<>>
  /\ UNCHANGED <<cfgVars, lapVars, codecVars, v2Vars, restartVars, v3Vars, conn, regWrite, regThisConn, failure, runVars>>

\* the read in flight returns a datagram d whose type byte is one of types
Listens(d, types) ==
  api = "listen" /\ pc = "reading" /\ Len(d) >= 1 /\ d[1] \in types

\* for !client.stopListening: the loop ends
ListenStop ==
  /\ api = "listen" /\ pc = "listen" /\ ~LoopCondition(stopListening)
  /\ msgType' = NoMsg /\ replaced' = NilList
  /\ pc' = "disconnect"
  /\ calls' = <<>> /\ written' = <<>>
  /\ UNCHANGED <<cfgVars, lapVars, codecVars, v2Vars, restartVars, v3Vars, conn, regWrite, regThisConn, failure, runVars>>

\* conn.Read returns an error (timeout included)
ListenReadError ==
  /\ api = "listen" /\ pc = "reading"
  /\ msgType' = NoMsg /\ replaced' = NilList
  /\ stopListening' = TRUE
  /\ failure' = "read"
  /\ pc' = "disconnect"
  /\ calls' = <<>> /\ written' = <<>>
  /\ UNCHANGED <<cfgVars, lapVars, codecVars, v2Vars, restartVars, connectionId, conn, regWrite, regThisConn, runVars>>

\* conn.Read fills the whole buffer: log.Panic
ListenReadOverflow ==
  /\ api = "listen" /\ pc = "reading"
  /\ msgType' = NoMsg /\ replaced' = NilList
  /\ pc' = "panic"
  /\ failure' = "overflow"
  /\ calls' = <<>> /\ written' = <<>>
  /\ UNCHANGED <<cfgVars, lapVars, codecVars, v2Vars, restartVars, v3Vars, conn, regWrite, regThisConn, runVars>>

\* a datagram without a type byte: readBuffer.ReadByte fails
ListenReadEmpty ==
  /\ api = "listen" /\ pc = "reading"
  /\ msgType' = NoMsg /\ replaced' = NilList
  /\ stopListening' = TRUE
  /\ failure' = "nomsgtype"
  /\ pc' = "disconnect"
  /\ calls' = <<>> /\ written' = <<>>
  /\ UNCHANGED <<cfgVars, lapVars, codecVars, v2Vars, restartVars, connectionId, conn, regWrite, regThisConn, runVars>>

\* case RegistrationResultMsgType
ListenRegistration(d) ==
  /\ Listens(d, {RegistrationResultMsgType})
  /\ msgType' = d[1] /\ replaced' = NilList
  /\ LET resp == UnmarshalConnectionResp(d) IN
       /\ connectionId' = resp.connectionId
       /\ regThisConn' = [known |-> TRUE, id |-> resp.connectionId]
       /\ calls' = IF "OnConnected" \in handlers
                   THEN <<Call("OnConnected", <<resp.connectionId>>)>> ELSE <<>>
  /\ written' = <<>>
  /\ pc' = "listen"
  /\ UNCHANGED <<cfgVars, lapVars, codecVars, v2Vars, restartVars, stopListening, conn, regWrite, failure, runVars>>

ListenRegistrationResult == \E d \in Datagrams : ListenRegistration(d)

\* the handler and the argument of the other cases of the switch
Dispatch(d) ==
  CASE d[1] = RealtimeUpdateMsgType    -> Call("OnRealTimeUpdate", <<>>)
    [] d[1] = RealtimeCarUpdateMsgType -> Call("OnRealTimeCarUpdate", <<UnmarshalCarUpdateResp(d).Id>>)
    [] d[1] = EntryListMsgType         -> Call("OnEntryList", UnmarshalEntryListRep(d).entryList)
    [] d[1] = EntryListCarMsgType      -> Call("OnEntryListCar", <<UnmarshalEntryListCarResp(d).Id>>)
    [] d[1] = TrackDataMsgType         -> Call("OnTrackData", <<>>)
    [] d[1] = BroadcastingEventMsgType -> Call("OnBroadCastEvent", <<>>)
    [] OTHER                           -> Call("none", <<>>)

\* the other cases: the handler, if it is set, gets what was decoded
ListenMessage ==
  /\ \E d \in Datagrams :
       /\ Listens(d, {0, 8, RealtimeUpdateMsgType, RealtimeCarUpdateMsgType,
                      EntryListMsgType, EntryListCarMsgType, TrackDataMsgType,
                      BroadcastingEventMsgType})
       /\ msgType' = d[1] /\ replaced' = NilList
       /\ calls' = IF Dispatch(d).h \in handlers THEN <<Dispatch(d)>> ELSE <<>>
  /\ written' = <<>>
  /\ pc' = "listen"
  /\ UNCHANGED <<cfgVars, lapVars, codecVars, v2Vars, restartVars, v3Vars, conn, regWrite, regThisConn, failure, runVars>>

\* Client.disconnect, called last by ConnectAndListen, which then returns;
\* a method call on the nil *net.UDPConn is a nil pointer dereference
ListenDisconnect ==
  /\ api = "listen" /\ pc = "disconnect"
  /\ msgType' = NoMsg /\ replaced' = NilList
  /\ IF conn = 0
     THEN /\ pc' = "panic"
          /\ calls' = <<>> /\ written' = <<>>
          /\ UNCHANGED conn
     ELSE \E w \in WriteResults :
          /\ written' = <<Sent(MarshalDisconnectReq(connectionId), w)>>
          /\ conn' = IF w = "ok" THEN 0 ELSE conn
          /\ calls' = IF w = "ok" /\ "OnDisconnected" \in handlers
                      THEN <<Call("OnDisconnected", <<>>)>> ELSE <<>>
          /\ pc' = "idle"
  /\ UNCHANGED <<cfgVars, lapVars, codecVars, v2Vars, restartVars, v3Vars, regWrite, regThisConn, failure, runVars>>

\* the success that ConnectAndListen returns: the one of connect, or else
\* the one of listen
success == failure = "none"

\* Client.RequestDisconnect, called by the application
RequestDisconnect ==
  /\ api = "listen" /\ pc # "panic"
  /\ msgType' = NoMsg /\ replaced' = NilList
  /\ stopListening' = TRUE
  /\ calls' = <<>> /\ written' = <<>>
  /\ UNCHANGED <<cfgVars, lapVars, codecVars, v2Vars, restartVars, connectionId, pc, conn, regWrite, regThisConn, failure, runVars>>

\* Client.RequestEntryList and Client.RequestTrackData, called by the application
Request(frame) ==
  /\ api = "listen" /\ pc # "panic"
  /\ msgType' = NoMsg /\ replaced' = NilList
  /\ IF stopListening
     THEN /\ written' = <<>>
          /\ UNCHANGED pc
     ELSE IF conn = 0
     THEN /\ pc' = "panic"
          /\ written' = <<>>
     ELSE /\ \E w \in WriteResults : written' = <<Sent(frame, w)>>
          /\ UNCHANGED pc
  /\ calls' = <<>>
  /\ UNCHANGED <<cfgVars, lapVars, codecVars, v2Vars, restartVars, v3Vars, conn, regWrite, regThisConn, failure, runVars>>

RequestEntryListCall == Request(MarshalEntryListReq(connectionId))
RequestTrackDataCall == Request(MarshalTrackDataReq(connectionId))

ListenNext ==
  \/ ListenConnect \/ ListenEnter \/ ListenStop \/ ListenReadError \/ ListenReadOverflow
  \/ ListenReadEmpty \/ ListenRegistrationResult \/ ListenMessage
  \/ ListenDisconnect

\* Client.Disconnect, called by the application while ConnectAndRun is in
\* its read loop: the socket is closed, an error of Close is only logged
Disconnect ==
  /\ api = "run" /\ pc = "read" /\ conn = 1
  /\ conn' = Closed
  /\ msgType' = NoMsg /\ replaced' = NilList
  /\ calls' = <<>> /\ written' = <<>>
  /\ UNCHANGED <<cfgVars, lapVars, codecVars, v2Vars, restartVars, v3Vars, pc, attempt, globalConnectionId, cacheVars,
                 connHist, failure, entryListCarCalled, sinceReqFrame, unk,
                 resyncPending>>

AppNext ==
  RequestDisconnect \/ RequestEntryListCall \/ RequestTrackDataCall \/ Disconnect

RunNext ==
  \/ RunStartAttempt \/ RunResolve \/ RunDial \/ RunRegister
  \/ RunReadError \/ RunReadOverflow \/ RunReadEmpty
  \/ RunRegistrationResult \/ RunRealtimeUpdate \/ RunRealtimeCarUpdate
  \/ RunEntryList \/ RunEntryListCar \/ RunTrackData \/ RunBroadcastingEvent
  \/ RunUnrecognised

Next == Tick \/ RunNext \/ ListenNext \/ AppNext

Spec == Init /\ [][Next]_vars

TypeOK ==
  /\ api \in {"run", "listen"}
  /\ pc \in {"loop", "resolve", "dial", "register", "read", "panic",
            "idle", "listen", "reading", "disconnect"}
  /\ stopListening \in BOOLEAN
  /\ connectionId \in 0..MaxConnId
  /\ attempt \in 0..1
  /\ conn \in {0, 1, Closed}
  /\ msgType \in {NoMsg} \cup 0..8
  /\ buffer \in LapBuffers \cup {<<>>}
  /\ lap.decoded \in BOOLEAN /\ lap.ok \in BOOLEAN
  /\ entryList.ids \in Lists
  /\ sinceEntryListRequest \in 0..Horizon

\* the steps of the connection loop that wait for nothing but the goroutine
\* (a read on a closed socket returns its error at once)
RunProgress ==
  \/ RunStartAttempt \/ RunResolve \/ RunDial \/ RunRegister
  \/ (conn = Closed /\ RunReadError)

\* fairness: the goroutine keeps running
LiveSpec == Init /\ [][Next]_vars /\ WF_vars(RunProgress)

\* ------------------------------------------------- the decoding of a lap
\* unmarshalLap is called on the buffer
UnmarshalLapCall ==
  /\ ~lap.decoded
  /\ lap' = unmarshalLap(buffer)
  /\ UNCHANGED <<clientVars, buffer, codecVars, v2Vars, restartVars>>

\* the client before any call
ClientAtRest ==
  /\ api = "listen" /\ handlers = {} /\ pc = "idle"
  /\ connectionId = 0 /\ stopListening = FALSE /\ attempt = 0 /\ conn = 0
  /\ globalConnectionId = 0 /\ entryList = NilList
  /\ sinceEntryListRequest = Horizon
  /\ calls = <<>> /\ written = <<>> /\ msgType = NoMsg /\ replaced = NilList
  /\ slept = FALSE /\ regWrite = "none" /\ regThisConn = NoId
  /\ entryListThisConn = FALSE /\ failure = "none"
  /\ entryListCarCalled = FALSE /\ sinceReqFrame = Horizon
  /\ unk = NoUnk /\ resyncPending = FALSE

\* the client at rest and a buffer for unmarshalLap
LapInit ==
  /\ ClientAtRest
  /\ buffer \in LapBuffers
  /\ lap = NoLap
  /\ given = NoArg /\ ret = NoRet
  /\ writeBuffer = <<>> /\ datagrams = <<>> /\ returned = NoReturn
  /\ AtRest

LapNext == UnmarshalLapCall

LapSpec == LapInit /\ [][LapNext]_vars

\* ------------------------------------------------ the calls of the codec
\* writeString(s) into an empty buffer, bytes t appended behind it, and
\* readString on the result
StringRoundTrip ==
  /\ given.fn = "string" /\ ~ret.done
  /\ LET wire == writeString(given.b)
         r    == readString(wire \o given.t)
     IN  ret' = [done |-> TRUE, ok |-> r.ok, panics |-> r.panics, b |-> wire,
                 s |-> r.s, rest |-> r.rest, late |-> FALSE]
  /\ UNCHANGED <<clientVars, lapVars, v2Vars, restartVars, given>>

\* readString on the bytes of an inbound datagram
ReadStringCall ==
  /\ given.fn = "readString" /\ ~ret.done
  /\ LET r == readString(given.b)
     IN  ret' = [done |-> TRUE, ok |-> r.ok, panics |-> r.panics, b |-> <<>>,
                 s |-> r.s, rest |-> r.rest, late |-> FALSE]
  /\ UNCHANGED <<clientVars, lapVars, v2Vars, restartVars, given>>

\* readBuffer of an int16, of a uint16 and of an int32 on the bytes given.b,
\* and writeBuffer of that int32
IntegerCall ==
  /\ given.fn = "integer" /\ ~ret.done
  /\ ret' = [done |-> TRUE, ok |-> TRUE, panics |-> FALSE,
             b |-> Int32Bytes(Int32LE(given.b)),
             s |-> <<Int16LE(given.b), Uint16LE(given.b), Int32LE(given.b)>>,
             rest |-> <<>>, late |-> FALSE]
  /\ UNCHANGED <<clientVars, lapVars, v2Vars, restartVars, given>>

\* the decoder of message type given.type on the first bytes given.b of the
\* payload given.t
UnmarshalCall ==
  /\ given.fn = "Unmarshal" /\ ~ret.done
  /\ LET r == UnmarshalBytes(given.type, given.b)
     IN  ret' = [done |-> TRUE, ok |-> r.ok, panics |-> r.panics, b |-> <<>>,
                 s |-> <<>>, rest |-> r.b, late |-> r.late]
  /\ UNCHANGED <<clientVars, lapVars, v2Vars, restartVars, given>>

CodecArgs ==
  {[fn |-> "string", type |-> 0, b |-> s, t |-> t] : s \in Strings, t \in Tails}
    \cup {[fn |-> "readString", type |-> 0, b |-> b, t |-> <<>>] : b \in ByteSeqs}
    \cup {[fn |-> "integer", type |-> 0, b |-> b, t |-> <<>>] : b \in [1..4 -> WireBytes]}
    \cup UNION { UNION { {[fn |-> "Unmarshal", type |-> type, b |-> b, t |-> payload] :
                              b \in Prefixes(payload)} :
                          payload \in Payloads(type) } :
                  type \in InboundCodes }

CodecInit ==
  /\ ClientAtRest
  /\ buffer = <<>> /\ lap = NoLap
  /\ given \in CodecArgs
  /\ ret = NoRet
  /\ writeBuffer = <<>> /\ datagrams = <<>> /\ returned = NoReturn
  /\ AtRest

CodecNext == StringRoundTrip \/ ReadStringCall \/ UnmarshalCall \/ IntegerCall

CodecSpec == CodecInit /\ [][CodecNext]_vars

\* ------------------------------------------------------- the v2 Client
\* ConnectAndRun of the v2 Client and the methods the application calls on
\* it; api = "v2".  The v2 Client keeps no entry list; its frames are encoded
\* in client.writeBuffer, which the model holds as the sequence of the
\* frames in it.
MaxFrames == 3

\* the variables the v2 Client does not have
v2Rest ==
  <<cfgVars, lapVars, codecVars, restartVars, globalConnectionId, entryList,
    sinceEntryListRequest, stopListening, replaced, written, regWrite,
    regThisConn, entryListThisConn, entryListCarCalled, sinceReqFrame, unk,
    resyncPending>>

\* conn.Write(client.writeBuffer.Bytes()): every frame the buffer holds
Written(buf, w) == [frames |-> buf, res |-> w]

\* one turn of StartConnectionLoop up to the write of the registration
\* request: MarshalConnectinReq encodes behind what client.writeBuffer
\* holds; a method call on the nil *net.UDPConn is a nil pointer dereference
V2Connect ==
  /\ api = "v2" /\ pc = "loop" /\ Len(writeBuffer) < MaxFrames
  /\ slept' = (attempt > 0)
  /\ attempt' = Min(attempt + 1, 1)
  /\ msgType' = NoMsg /\ calls' = <<>> /\ returned' = NoReturn
  /\ \E resolved \in BOOLEAN, dialed \in BOOLEAN, w \in WriteResults :
       /\ (~resolved => dialed) /\ Unused(~resolved \/ ~dialed, w)
       /\ IF ~resolved
          THEN /\ pc' = "loop" /\ failure' = "resolve" /\ datagrams' = <<>>
               /\ UNCHANGED <<conn, writeBuffer>>
          ELSE /\ conn' = IF dialed THEN 1 ELSE 0
               /\ writeBuffer' = Append(writeBuffer, MarshalConnectinReq)
               /\ IF ~dialed
                  THEN pc' = "panic" /\ failure' = "dial" /\ datagrams' = <<>>
                  ELSE /\ datagrams' = <<Written(writeBuffer', w)>>
                       /\ pc' = RegisterNextPc(w)
                       /\ failure' = IF w = "ok" THEN "none" ELSE "write"
  /\ UNCHANGED <<connectionId, v2Rest>>

\* for client.connectionId >= 0: the loop is left and the next turn of
\* StartConnectionLoop begins
V2LoopExit ==
  /\ api = "v2" /\ pc = "read" /\ connectionId < 0
  /\ pc' = "loop"
  /\ msgType' = NoMsg /\ calls' = <<>> /\ datagrams' = <<>> /\ returned' = NoReturn
  /\ UNCHANGED <<attempt, conn, connectionId, slept, failure, writeBuffer, v2Rest>>

\* conn.Read fails (always on a closed socket), fills the buffer, or
\* returns a datagram without a type byte
V2ReadFails ==
  /\ api = "v2" /\ pc = "read" /\ connectionId >= 0
  /\ \E o \in {"read", "overflow", "nomsgtype"} :
       /\ conn = Closed => o = "read"
       /\ failure' = o
       /\ pc' = IF o = "overflow" THEN "panic" ELSE "loop"
  /\ msgType' = NoMsg /\ calls' = <<>> /\ datagrams' = <<>> /\ returned' = NoReturn
  /\ UNCHANGED <<attempt, conn, connectionId, slept, writeBuffer, v2Rest>>

\* the switch on msgType: a RegistrationResult sets client.connectionId,
\* every other message goes to its handler, if that is set
V2Message ==
  /\ api = "v2" /\ pc = "read" /\ connectionId >= 0 /\ conn = 1
  /\ \E d \in Datagrams :
       /\ Len(d) >= 1
       /\ msgType' = d[1]
       /\ IF d[1] = RegistrationResultMsgType
          THEN /\ connectionId' = UnmarshalConnectionResp(d).connectionId
               /\ calls' = <<>>
          ELSE /\ calls' = IF Dispatch(d).h \in handlers THEN <<Dispatch(d)>> ELSE <<>>
               /\ UNCHANGED connectionId
  /\ datagrams' = <<>> /\ returned' = NoReturn
  /\ UNCHANGED <<pc, attempt, conn, slept, failure, writeBuffer, v2Rest>>

\* a write on the closed socket writes nothing and reports an error
OnSocket(w) == conn = Closed => w = "short"

\* Client.RequestTrackData, called by the application on a connected client
V2RequestTrackData ==
  /\ api = "v2" /\ pc = "read"
  /\ \E id \in ConnIds, w \in WriteResults :
       /\ OnSocket(w)
       /\ writeBuffer' = <<MarshalTrackDataReq(id)>>
       /\ datagrams' = <<Written(writeBuffer', w)>>
       /\ returned' = [fn |-> "RequestTrackData", id |-> id, ok |-> w = "ok"]
  /\ msgType' = NoMsg /\ calls' = <<>>
  /\ UNCHANGED <<pc, attempt, conn, connectionId, slept, failure, v2Rest>>

\* the named result ok of RequestEntryList where it is tested: nothing has
\* been assigned to it, the result of MarshalEntryListReq is dropped
RequestEntryListOk == FALSE

\* Client.RequestEntryList, called by the application on a connected client
V2RequestEntryList ==
  /\ api = "v2" /\ pc = "read"
  /\ \E id \in ConnIds, w \in WriteResults :
       /\ writeBuffer' = <<MarshalEntryListReq(id)>>
       /\ IF ~RequestEntryListOk
          THEN /\ w = "ok"
               /\ datagrams' = <<>>
               /\ returned' = [fn |-> "RequestEntryList", id |-> id, ok |-> FALSE]
          ELSE /\ OnSocket(w)
               /\ datagrams' = <<Written(writeBuffer', w)>>
               /\ returned' = [fn |-> "RequestEntryList", id |-> id, ok |-> w = "ok"]
  /\ msgType' = NoMsg /\ calls' = <<>>
  /\ UNCHANGED <<pc, attempt, conn, connectionId, slept, failure, v2Rest>>

\* Client.Disconnect: the Disconnect frame is written; a failed write
\* returns before connectionId is set to -1 and the socket is closed
V2Disconnect ==
  /\ api = "v2" /\ pc = "read"
  /\ \E w \in WriteResults :
       /\ OnSocket(w)
       /\ writeBuffer' = <<MarshalDisconnectReq(connectionId)>>
       /\ datagrams' = <<Written(writeBuffer', w)>>
       /\ returned' = [fn |-> "Disconnect", id |-> connectionId, ok |-> w = "ok"]
       /\ connectionId' = IF w = "ok" THEN -1 ELSE connectionId
       /\ conn' = IF w = "ok" THEN Closed ELSE conn
  /\ msgType' = NoMsg /\ calls' = <<>>
  /\ UNCHANGED <<pc, attempt, slept, failure, v2Rest>>

\* the v2 Client before ConnectAndRun is called
V2Init ==
  /\ api = "v2" /\ handlers \in {RunHandlers, {}} /\ pc = "loop"
  /\ connectionId = 0 /\ stopListening = FALSE /\ attempt = 0 /\ conn = 0
  /\ globalConnectionId = 0 /\ entryList = NilList
  /\ sinceEntryListRequest = Horizon
  /\ calls = <<>> /\ written = <<>> /\ msgType = NoMsg /\ replaced = NilList
  /\ slept = FALSE /\ regWrite = "none" /\ regThisConn = NoId
  /\ entryListThisConn = FALSE /\ failure = "none"
  /\ entryListCarCalled = FALSE /\ sinceReqFrame = Horizon
  /\ unk = NoUnk /\ resyncPending = FALSE
  /\ buffer = <<>> /\ lap = NoLap
  /\ given = NoArg /\ ret = NoRet
  /\ writeBuffer = <<>> /\ datagrams = <<>> /\ returned = NoReturn
  /\ AtRest

V2Next ==
  \/ V2Connect \/ V2LoopExit \/ V2ReadFails \/ V2Message
  \/ V2RequestTrackData \/ V2RequestEntryList \/ V2Disconnect

V2Spec == V2Init /\ [][V2Next]_vars

\* --------------------------------- two calls of v3 ConnectAndListen
\* The test client starts ConnectAndListen in a goroutine, calls
\* RequestDisconnect and starts ConnectAndListen again on the same Client
\* without waiting for the earlier call to return; api = "restart".  The two
\* calls share client.stopListening and client.conn.  Socket 1 is the one
\* the earlier call dialled, socket 2 the one the newer call dials.
Calls == {"earlier", "newer"}

\* the client variables that play no part here
restartRest ==
  <<cfgVars, lapVars, codecVars, v2Vars, pc, attempt, conn, globalConnectionId,
    entryList, sinceEntryListRequest, connectionId, msgType, replaced, calls,
    written, slept, regWrite, regThisConn, entryListThisConn, failure,
    entryListCarCalled, sinceReqFrame, unk, resyncPending>>

\* a panic ends the whole program
Running == \A g \in DOMAIN goroutine : goroutine[g] # "panic"

\* call g is at position p
At(g, p) == api = "restart" /\ Running /\ goroutine[g] = p

\* accClient.RequestDisconnect() in main
MainRequestDisconnect ==
  /\ At("app", "request")
  /\ stopListening' = TRUE
  /\ goroutine' = [goroutine EXCEPT !["app"] = "start"]
  /\ disconnected' = NoDisconnect
  /\ UNCHANGED <<socket, connRef, restartRest>>

\* go accClient.ConnectAndListen(...) of the next turn of the loop in main
MainStartsNewer ==
  /\ At("app", "start")
  /\ goroutine' = [goroutine EXCEPT !["app"] = "done", !["newer"] = "connect"]
  /\ disconnected' = NoDisconnect
  /\ UNCHANGED <<stopListening, socket, connRef, restartRest>>

\* connect: client.stopListening = false and net.ResolveUDPAddr
CallResets(g) ==
  /\ At(g, "connect")
  /\ stopListening' = FALSE
  /\ \E resolved \in BOOLEAN :
       goroutine' = [goroutine EXCEPT ![g] = IF resolved THEN "dial" ELSE "disconnect"]
  /\ disconnected' = NoDisconnect
  /\ UNCHANGED <<socket, connRef, restartRest>>

\* connect: client.conn, err = net.DialUDP(...); on an error client.conn is nil
CallDials(g) ==
  /\ At(g, "dial")
  /\ \E dialed \in BOOLEAN :
       /\ connRef' = IF dialed THEN 2 ELSE 0
       /\ socket' = IF dialed THEN [socket EXCEPT ![2] = "open"] ELSE socket
       /\ goroutine' = [goroutine EXCEPT ![g] = IF dialed THEN "register" ELSE "disconnect"]
  /\ disconnected' = NoDisconnect
  /\ UNCHANGED <<stopListening, restartRest>>

\* what a write on client.conn can report: nothing is written on a closed socket
WriteOn(ref, w) == socket[ref] = "closed" => w = "short"

\* connect: SetDeadline and Write of the registration request on client.conn
CallRegisters(g) ==
  /\ At(g, "register")
  /\ IF connRef = 0
     THEN goroutine' = [goroutine EXCEPT ![g] = "panic"]
     ELSE \E w \in WriteResults :
            /\ WriteOn(connRef, w)
            /\ goroutine' = [goroutine EXCEPT ![g] = IF w = "ok" THEN "listen" ELSE "disconnect"]
  /\ disconnected' = NoDisconnect
  /\ UNCHANGED <<stopListening, socket, connRef, restartRest>>

\* listen: for !client.stopListening
CallTests(g) ==
  /\ At(g, "listen")
  /\ goroutine' = [goroutine EXCEPT ![g] =
                      IF LoopCondition(stopListening) THEN "reading" ELSE "disconnect"]
  /\ disconnected' = NoDisconnect
  /\ UNCHANGED <<stopListening, socket, connRef, restartRest>>

\* listen: SetDeadline and Read on client.conn, and what follows the read:
\* an error or a datagram without type byte sets the stop flag and ends the
\* loop, a full buffer panics, any other datagram is dispatched
CallReads(g) ==
  /\ At(g, "reading")
  /\ IF connRef = 0
     THEN /\ goroutine' = [goroutine EXCEPT ![g] = "panic"]
          /\ UNCHANGED stopListening
     ELSE \E o \in {"datagram", "read", "nomsgtype", "overflow"} :
            /\ socket[connRef] = "closed" => o = "read"
            /\ stopListening' = IF o \in {"read", "nomsgtype"} THEN TRUE ELSE stopListening
            /\ goroutine' = [goroutine EXCEPT ![g] =
                   CASE o = "datagram" -> "listen"
                     [] o = "overflow" -> "panic"
                     [] OTHER          -> "disconnect"]
  /\ disconnected' = NoDisconnect
  /\ UNCHANGED <<socket, connRef, restartRest>>

\* disconnect: the Disconnect frame is written on client.conn; after a
\* whole write client.conn is closed and set to nil, and the call returns
CallDisconnects(g) ==
  /\ At(g, "disconnect")
  /\ IF connRef = 0
     THEN /\ goroutine' = [goroutine EXCEPT ![g] = "panic"]
          /\ disconnected' = NoDisconnect
          /\ UNCHANGED <<socket, connRef>>
     ELSE \E w \in WriteResults :
            /\ WriteOn(connRef, w)
            /\ disconnected' = [by |-> g, socket |-> connRef, closed |-> w = "ok"]
            /\ socket' = IF w = "ok" THEN [socket EXCEPT ![connRef] = "closed"] ELSE socket
            /\ connRef' = IF w = "ok" THEN 0 ELSE connRef
            /\ goroutine' = [goroutine EXCEPT ![g] = "returned"]
  /\ UNCHANGED <<stopListening, restartRest>>

\* the earlier call is connected and in its loop, main is about to call
\* RequestDisconnect
RestartInit ==
  /\ api = "restart" /\ handlers = HandlerNames /\ pc = "idle"
  /\ connectionId = 0 /\ stopListening = FALSE /\ attempt = 0 /\ conn = 0
  /\ globalConnectionId = 0 /\ entryList = NilList
  /\ sinceEntryListRequest = Horizon
  /\ calls = <<>> /\ written = <<>> /\ msgType = NoMsg /\ replaced = NilList
  /\ slept = FALSE /\ regWrite = "none" /\ regThisConn = NoId
  /\ entryListThisConn = FALSE /\ failure = "none"
  /\ entryListCarCalled = FALSE /\ sinceReqFrame = Horizon
  /\ unk = NoUnk /\ resyncPending = FALSE
  /\ buffer = <<>> /\ lap = NoLap
  /\ given = NoArg /\ ret = NoRet
  /\ writeBuffer = <<>> /\ datagrams = <<>> /\ returned = NoReturn
  /\ goroutine \in {[app |-> "request", earlier |-> p, newer |-> "unstarted"] :
                      p \in {"listen", "reading"}}
  /\ socket = <<"open", "unopened">> /\ connRef = 1
  /\ disconnected = NoDisconnect

RestartNext ==
  \/ MainRequestDisconnect \/ MainStartsNewer
  \/ \E g \in Calls :
       \/ CallResets(g) \/ CallDials(g) \/ CallRegisters(g)
       \/ CallTests(g) \/ CallReads(g) \/ CallDisconnects(g)

RestartSpec == RestartInit /\ [][RestartNext]_vars

\* the split at position i of the buffer, as it is on the wire
WireSplit(i) == Int32LE(SubSeq(buffer, 9 + 4 * (i - 1) + 1, 9 + 4 * i))

\* fairness for the v3 client: the goroutine of ConnectAndListen tests the
\* loop condition and runs disconnect
ListenLiveSpec ==
  /\ Init /\ [][Next]_vars
  /\ WF_vars(ListenStop) /\ WF_vars(ListenDisconnect)

\* conn.Read returns: a datagram, or an error once the deadline has passed
ListenReadReturns ==
  \/ ListenReadError \/ ListenReadOverflow \/ ListenReadEmpty
  \/ ListenRegistrationResult \/ ListenMessage

\* fairness for a started call of ConnectAndListen: its goroutine runs
\* connect, tests the loop condition, gets an answer from every read and
\* runs disconnect
StartedSpec ==
  /\ Init /\ [][Next]_vars
  /\ WF_vars(ListenConnect) /\ WF_vars(ListenEnter) /\ WF_vars(ListenReadReturns)
  /\ WF_vars(ListenStop) /\ WF_vars(ListenDisconnect)

\* and, the assumption of the re-synchronisation claim, time passes and car
\* updates keep arriving
ArrivalSpec ==
  /\ Init /\ [][Next]_vars
  /\ WF_vars(RunProgress) /\ WF_vars(Tick) /\ WF_vars(RunRealtimeCarUpdate)

\* ------------------------------------------------------------ properties
CarUpdates == {d \in Datagrams : Len(d) >= 1 /\ d[1] = RealtimeCarUpdateMsgType}
CalledWith(cs, h) == {cs[i].arg : i \in {j \in 1..Len(cs) : cs[j].h = h}}
FramesOf(ws, types) == {i \in 1..Len(ws) : ws[i].type \in types}

\* the last attempt of ConnectAndRun ended with a read error
ReadFailed == api = "run" /\ failure = "read"

\* the handler the switch of ConnectAndRun calls for a type byte
HandlerOf(type) ==
  CASE type = RealtimeUpdateMsgType    -> "OnRealTimeUpdate"
    [] type = RealtimeCarUpdateMsgType -> "OnRealTimeCarUpdate"
    [] type = EntryListMsgType         -> "OnEntryList"
    [] type = EntryListCarMsgType      -> "OnEntryListCar"
    [] type = TrackDataMsgType         -> "OnTrackData"
    [] type = BroadcastingEventMsgType -> "OnBroadCastEvent"
    [] OTHER                           -> "none"

\* the step invokes no handler, writes nothing and leaves the client as it was
NoEffect ==
  /\ calls' = <<>> /\ written' = <<>>
  /\ UNCHANGED <<pc, conn, attempt, globalConnectionId, entryList>>

\* the failures ConnectAndRun logs as leading to a retry
Transient == {"resolve", "dial", "write", "read"}

C2_AfterEntryListCar ==
  (api = "run" /\ <<0>> \in CalledWith(calls, "OnRealTimeCarUpdate")) =>
     /\ entryList.known /\ 0 \in Range(entryList.ids)
     /\ entryListCarCalled

\* C3: ConnectAndRun hands an entry-list request frame to the socket only when at least
\* one second has passed since the previous one; an attempt made earlier
\* writes nothing.
C3_RateLimit ==
  [][ (api = "run" /\ FramesOf(written', {RequestEntryList}) # {})
         => sinceReqFrame >= Second ]_vars

C3_Witness ==
  /\ FramesOf(written, {RequestEntryList}) # {}
  /\ unk.valid /\ unk.reqs = 1
  /\ regThisConn.known

\* C4: of two consecutive car updates for unknown cars on one connection, the
\* first one invalidating the cached list, exactly one writes an entry-list
\* request when they are less than a second apart, and both do when they are
\* more than a second apart.
C4_PairOfUnknownUpdates ==
  [][ \A d \in CarUpdates, w \in WriteResults :
        (unk.valid /\ RealtimeCarUpdate(d, w)) =>
           LET total == unk.reqs + Cardinality(FramesOf(written', {RequestEntryList}))
           IN  /\ unk.age < Second => total = 1
               /\ unk.age > Second => total = 2
    ]_vars

\* C5: once the cached list was invalidated, an entry-list request is
\* eventually written on that connection (or the list arrives, or the
\* connection ends).
C5_Resynchronizes == resyncPending ~> (~resyncPending \/ pc # "read")

\* C6: a read error ends the attempt: nothing more is read on that socket, the
\* next step of the loop is the backoff sleep followed by the resolution of
\* the address and, unless the resolution, the dial or the write fails, a
\* registration request is written after that sleep.
C6_ReadErrorRestarts ==
  /\ [](ReadFailed => pc = "loop")
  /\ [][ReadFailed => pc' \in {"loop", "resolve"}]_vars
  /\ ReadFailed ~> (\/ regWrite = "ok" /\ slept /\ pc = "read"
                    \/ failure \in {"resolve", "dial", "write"})

C6_Witness == ReadFailed /\ pc = "loop" /\ entryList.known

\* C7: on a connection made after a reconnection no car update is delivered
\* before an EntryList message was read on that connection.
C7_ListUnknownAfterReconnect ==
  (slept /\ CalledWith(calls, "OnRealTimeCarUpdate") # {}) => entryListThisConn

\* C8: every entry-list request, track-data request and Disconnect frame
\* carries the connection id of the RegistrationResult read on the current
\* connection.
C8_FreshConnectionId ==
  \A i \in FramesOf(written, {RequestEntryList, RequestTrackData, UnregisterCommandApplication}) :
     regThisConn.known /\ written[i].connId = regThisConn.id

\* C9: every transient failure is followed by another attempt, which is
\* preceded by the backoff sleep; the client never stops retrying.
C9_AlwaysRetries ==
  (api = "run" /\ failure \in Transient) ~> (pc = "resolve" /\ slept)

\* C10: when the write of the registration request reports fewer bytes than
\* the frame has, the read loop is not entered, no handler is invoked in that
\* attempt, and the client goes on to a new attempt instead of returning.
C10_ShortWriteAborts ==
  regWrite = "short" =>
     /\ pc \notin {"read", "listen", "reading"}
     /\ calls = <<>>
     /\ pc # "idle"

C12_DecodeFailureDrops ==
  [][ \A d \in Datagrams :
        /\ (~UnmarshalEntryListRep(d).ok /\ EntryListMsg(d)) => NoEffect
        /\ (~UnmarshalEntryListCarResp(d).ok /\ EntryListCarMsg(d)) => NoEffect
        /\ \A w \in WriteResults :
             (~UnmarshalCarUpdateResp(d).ok /\ RealtimeCarUpdate(d, w)) => NoEffect
        /\ \A w1 \in WriteResults, w2 \in WriteResults :
             (~UnmarshalConnectionResp(d).ok /\ RegistrationResult(d, w1, w2)) => NoEffect
    ]_vars

\* C13: in ConnectAndRun a datagram whose type byte is none of the inbound
\* codes has no effect: no handler is invoked, nothing is written, the cached
\* list and the connection id are unchanged and the read loop goes on with
\* the same connection.
C13_UnrecognisedDiscarded ==
  [][ (api = "run" /\ msgType' \notin (InboundCodes \cup {NoMsg})) => NoEffect ]_vars

C13_Witness ==
  /\ api = "run" /\ msgType = 8 /\ pc = "read"
  /\ entryList.known /\ regThisConn.known

\* C14: ConnectAndRun invokes handlers synchronously and in arrival order:
\* a step that reads no datagram invokes nothing, a step that reads one
\* invokes at most one handler, the one of that datagram's type, and the
\* call is over when the step ends, so nothing is queued or replayed.
C14_SynchronousInOrder ==
  api = "run" =>
    /\ Len(calls) <= 1
    /\ calls # <<>> => calls[1].h = HandlerOf(msgType)

C14_Witness ==
  /\ api = "run" /\ msgType = RealtimeUpdateMsgType /\ pc = "read"
  /\ Len(calls) = 1 /\ calls[1].h = "OnRealTimeUpdate"

\* C15: once Disconnect has been called while ConnectAndRun is in its read
\* loop the client is stopped: it opens no new socket, writes no further
\* registration request and invokes no handler.
C15_DisconnectStops ==
  [][ (api = "run" /\ conn = Closed) =>
        /\ conn' # 1
        /\ calls' = <<>>
        /\ FramesOf(written', {RegisterCommandApplication}) = {} ]_vars

\* C16: ConnectListenAndCallback ends instead of retrying: when connecting
\* has failed, or the read in the listen loop has failed (timeout included),
\* the closing step makes the call return, and it returns success = false.
C16_FailureReturnsFalse ==
  [][ (ListenDisconnect /\ failure \in {"resolve", "dial", "write", "read"})
        => (pc' = "idle" /\ ~success') ]_vars

\* C17: when RequestDisconnect is called while the v3 client is listening,
\* eventually the loop has ended, the Disconnect frame has been sent,
\* OnDisconnected has been invoked and the call has returned.
C17_RequestedDisconnectCompletes ==
  (api = "listen" /\ pc = "listen" /\ stopListening /\ "OnDisconnected" \in handlers)
    ~> (/\ pc = "idle"
        /\ CalledWith(calls, "OnDisconnected") # {}
        /\ \E i \in FramesOf(written, {UnregisterCommandApplication}) :
              written[i].res = "ok")

\* C18: whenever ConnectAndListen returns, the socket has been closed and
\* OnDisconnected, if it is set, has been invoked, also when the write of
\* the Disconnect frame failed.
C18_AlwaysClosesAndNotifies ==
  [][ (ListenDisconnect /\ pc' = "idle") =>
        /\ conn' = 0
        /\ "OnDisconnected" \in handlers => CalledWith(calls', "OnDisconnected") # {} ]_vars

\* C19: on every RegistrationResult, ConnectAndRun captures the connection
\* id and, the writes succeeding, sends an entry-list request and then a
\* track-data request, both carrying that id, before it reads again.
C19_RegistrationRequestsBoth ==
  [][ \A d \in Datagrams :
        RegistrationResult(d, "ok", "ok") =>
          LET id == UnmarshalConnectionResp(d).connectionId IN
            /\ globalConnectionId' = id
            /\ Len(written') = 2
            /\ written'[1].type = RequestEntryList
            /\ written'[2].type = RequestTrackData
            /\ written'[1].connId = id /\ written'[2].connId = id
            /\ pc' = "read" ]_vars

\* C20: in every lap that unmarshalLap returns, a split whose wire value is
\* the reserved 2^31 - 1 is 0 and every other split that was read has its
\* wire value; the lap has as many splits as the wire announces.
C20_InvalidSplitIsZero ==
  lap.decoded =>
    /\ Len(buffer) >= 9 => Len(lap.Splits) = buffer[9]
    /\ \A i \in 1..Len(lap.Splits) :
         Len(buffer) >= 9 + 4 * i =>
           lap.Splits[i] = IF WireSplit(i) = 2147483647 THEN 0 ELSE WireSplit(i)

C20_Witness ==
  /\ lap.decoded /\ lap.ok /\ Len(lap.Splits) = 2
  /\ WireSplit(1) = 2147483647 /\ lap.Splits[1] = 0
  /\ WireSplit(2) = 2147483646 /\ lap.Splits[2] = 2147483646

\* C21: for every string s, the empty one included, writeString emits the
\* length of s as two little-endian bytes and then exactly the bytes of s,
\* and readString on that output returns ok = true and s and has consumed
\* exactly those 2 + len(s) bytes.
C21_StringRoundTrip ==
  (given.fn = "string" /\ ret.done) =>
    /\ ret.b = <<Len(given.b) % 256, Len(given.b) \div 256>> \o given.b
    /\ ret.ok /\ ~ret.panics
    /\ ret.s = given.b
    /\ ret.rest = given.t

C21_Witness ==
  /\ given.fn = "string" /\ ret.done /\ ret.ok
  /\ given.b = <<65, 255>> /\ given.t = <<7>>
  /\ ret.b = <<2, 0, 65, 255>> /\ ret.s = <<65, 255>> /\ ret.rest = <<7>>

\* C22: no byte sequence makes the decoding crash: for every buffer, one
\* whose string length prefix is a negative int16 included, the decoder
\* returns, with ok = false for malformed input.
C22_DecodeNeverPanics ==
  ret.done => ~ret.panics

\* C23: for every inbound message type and every strict prefix of a
\* well-formed payload of that type the Unmarshal function returns
\* ok = false, UnmarshalTrackDataResp on a buffer too short for the
\* connection id included; on the whole payload it returns ok = true.
C23_ShortBufferNotOk ==
  (given.fn = "Unmarshal" /\ ret.done) =>
    /\ ~ret.panics
    /\ ret.ok <=> given.b = given.t

C23_Witness ==
  /\ given.fn = "Unmarshal" /\ ret.done
  /\ given.type = TrackDataMsgType /\ Len(given.b) = 3 /\ Len(given.t) > 3
  /\ ~ret.ok

\* C24: integers are read and written little-endian: wire bytes b0, b1
\* decode to b0 + 256 * b1 as a uint16 and to that value less 2^16 from
\* 2^15 on as an int16; an int32 takes its four bytes likewise, the least
\* significant first, and is written back as the same four bytes.
C24_LittleEndian ==
  (given.fn = "integer" /\ ret.done) =>
    LET b == given.b
        u == b[1] + 256 * b[2]
    IN  /\ ret.s[2] = u
        /\ ret.s[1] = IF u < 32768 THEN u ELSE u - 65536
        /\ ret.s[3] = IF b[4] < 128
                      THEN u + 65536 * b[3] + 16777216 * b[4]
                      ELSE u + 65536 * b[3] + 16777216 * (b[4] - 128) - 1073741824 - 1073741824
        /\ ret.b = b

C24_Witness ==
  /\ given.fn = "integer" /\ ret.done /\ given.b = <<0, 128, 1, 255>>
  /\ ret.s = <<-32768, 32768, -16678912>>
  /\ ret.b = <<0, 128, 1, 255>>

\* C25: every well-formed EntryList message that ConnectAndRun reads
\* replaces the cached entry list, whether or not OnEntryList is set.
C25_EntryListAlwaysCached ==
  [][ \A d \in WellFormed :
        EntryListMsg(d) =>
          entryList' = [known |-> TRUE, ids |-> UnmarshalEntryListRep(d).entryList] ]_vars

\* C26: receiving an EntryList clears the suppression of requests: the
\* first car update with an id that is not in the list, read while the list
\* received is still cached, makes ConnectAndRun write an entry-list
\* request, however recent the previous request is.
C26_EntryListClearsSuppression ==
  [][ \A d \in CarUpdates \cap WellFormed, w \in WriteResults :
        ( /\ RealtimeCarUpdate(d, w)
          /\ "OnRealTimeCarUpdate" \in handlers
          /\ entryList.known
          /\ ~Contains(entryList.ids, UnmarshalCarUpdateResp(d).Id) )
        => FramesOf(written', {RequestEntryList}) # {} ]_vars

\* C27: an EntryList message with fewer ids on the wire than its count
\* field announces (the decoder returns ok = false) leaves the cached
\* entry list as it was and is not passed to OnEntryList.
C27_TruncatedEntryListIgnored ==
  [][ \A d \in Datagrams :
        (EntryListMsg(d) /\ Len(d) >= 3 /\ ~UnmarshalEntryListRep(d).ok)
          => (UNCHANGED entryList /\ calls' = <<>>) ]_vars

\* C28: one entry list is current at a time: an EntryList message that
\* ConnectAndRun caches leaves exactly its own ids in the cache, nothing of
\* the list it replaces, and a car update is delivered only for an id of
\* the list that is cached then; an empty list makes every car id unknown.
C28_OneCurrentList ==
  /\ [][ (api = "run" /\ msgType' = EntryListMsgType /\ entryList'.known) =>
           \A d \in Datagrams :
             EntryListMsg(d) => entryList'.ids = UnmarshalEntryListRep(d).entryList ]_vars
  /\ [][ (api = "run" /\ calls' # <<>> /\ calls'[1].h = "OnRealTimeCarUpdate") =>
           /\ entryList.known
           /\ \E i \in 1..Len(entryList.ids) : <<entryList.ids[i]>> = calls'[1].arg ]_vars

C28_Witness ==
  /\ api = "run" /\ msgType = EntryListMsgType
  /\ replaced.known /\ replaced.ids = <<0>>
  /\ entryList.known /\ entryList.ids = <<>>

\* C29: before every write to the socket (registration request, entry-list
\* request, track-data request, Disconnect frame) the client has reset the
\* deadline of the socket to the current time plus the timeout.
C29_DeadlineResetBeforeWrite ==
  \A i \in 1..Len(written) : written[i].reset

\* C30: the stop flag is polled between reads: once RequestDisconnect has
\* set it, the loop of listen starts no further read, and the one read that
\* may be in flight is followed by the test of the flag, so at most one
\* further datagram is dispatched before the loop ends.
C30_PolledBetweenReads ==
  /\ [][ (api = "listen" /\ pc = "listen" /\ stopListening) =>
           (pc' \in {"listen", "disconnect"} /\ msgType' = NoMsg) ]_vars
  /\ [][ (api = "listen" /\ pc = "reading" /\ stopListening /\ msgType' # NoMsg) =>
           (pc' = "listen" /\ stopListening') ]_vars

C30_Witness ==
  /\ api = "listen" /\ pc = "listen" /\ stopListening
  /\ msgType = RealtimeUpdateMsgType /\ calls # <<>>

\* C31: a datagram of length zero, from which no type byte can be read, is
\* dropped and the read loop goes on with the same connection: ConnectAndRun
\* does not go back to the start of the connection loop, and listen neither
\* sets the stop flag nor leaves its loop.
C31_EmptyDatagramDropped ==
  [][ (pc \in {"read", "reading"} /\ failure' = "nomsgtype") =>
        /\ pc' = (IF api = "run" THEN "read" ELSE "listen")
        /\ UNCHANGED <<conn, stopListening>> ]_vars

\* C32: in every lap that unmarshalLap returns, a lap time whose wire value
\* is the reserved 2^31 - 1 (no time) is not surfaced as that number: it has
\* been replaced, as the splits are.
C32_InvalidLapTimeNormalized ==
  (lap.decoded /\ Len(buffer) >= 4 /\ Int32LE(SubSeq(buffer, 1, 4)) = InvalidSectorTime)
     => lap.LapTimeMs # InvalidSectorTime

\* C33: decoding short-circuits: once the read of a field has failed, no
\* Unmarshal function attempts the read of a later field, and it returns
\* ok = false.
C33_ShortCircuit ==
  (given.fn = "Unmarshal" /\ ret.done /\ ~ret.panics) =>
    /\ ~ret.late
    /\ given.b # given.t => ~ret.ok

\* C34: every datagram that v2 ConnectAndRun writes as a registration
\* request is exactly one Register frame, on the first attempt, on every
\* retry and after the methods of the application have used the buffer.
C34_RegistrationIsOneFrame ==
  \A i \in 1..Len(datagrams) :
    (\E k \in 1..Len(datagrams[i].frames) :
        datagrams[i].frames[k].type = RegisterCommandApplication)
      => datagrams[i].frames = <<MarshalConnectinReq>>

\* C35: v2 RequestEntryList(connectionId) on a connected client hands
\* exactly one entry-list request frame with that connection id to the
\* socket, and returns true exactly when the write reported the whole frame
\* and no error.
C35_RequestEntryListWrites ==
  returned.fn = "RequestEntryList" =>
    /\ Len(datagrams) = 1
    /\ datagrams[1].frames = <<MarshalEntryListReq(returned.id)>>
    /\ returned.ok <=> datagrams[1].res = "ok"

\* C36: a Client holds at most one open socket: whenever ConnectAndRun
\* dials, client.conn is nil or a socket that has been closed, never the
\* still open socket of the previous attempt.
C36_OneOpenSocket ==
  [][ (api = "run" /\ pc = "dial" /\ pc' = "register") => conn # 1 ]_vars

\* C37: a RegistrationResult whose success flag is 0 does not establish the
\* connection: the step that reads it writes no entry-list and no
\* track-data request and does not invoke OnConnected.
C37_RefusedRegistrationIgnored ==
  [][ \A c \in ConnIds :
        LET d == <<RegistrationResultMsgType, c, 0, REST>> IN
          ((\E w1 \in WriteResults, w2 \in WriteResults : RegistrationResult(d, w1, w2))
             \/ ListenRegistration(d))
            => (written' = <<>> /\ calls' = <<>>) ]_vars

\* C38: RequestDisconnect is never lost: whenever the stop flag has been
\* set for a call of ConnectAndListen, be it before connect() has run or
\* while the call listens, the call eventually stops listening and goes on
\* to its closing step (or has ended in the panic).
C38_RequestDisconnectNotLost ==
  (api = "listen" /\ stopListening /\ pc \in {"idle", "listen", "reading"})
    ~> (pc \in {"disconnect", "panic"})

\* C39: when ConnectAndListen is started again right after
\* RequestDisconnect, the disconnect() of the earlier call writes its frame
\* to, and closes, only the socket the earlier call opened, never the one
\* of the newer call, and the two calls are never both in the listen loop
\* with the stop flag cleared.
C39_EarlierClosesOwnSocket ==
  /\ disconnected.by = "earlier" => disconnected.socket = 1
  /\ ~(/\ goroutine["earlier"] \in {"listen", "reading"}
        /\ goroutine["newer"] \in {"listen", "reading"}
        /\ ~stopListening)

====
